---- MODULE Spec2Model ----
(***************************************************************************)
(* State-machine model of the OPC-UA water-station client: the singleton  *)
(* OPCUAClientWrapper (lib/opcClient), the SSE stream route, the control   *)
(* and test-connection routes, and the page's EventSource controller.      *)
(*                                                                         *)
(* Handlers are translated as operators over a record s of the program's   *)
(* state; an action applies one handler, from its call (or from the        *)
(* completion of the promise it awaits) up to its next await.              *)
(***************************************************************************)
EXTENDS Integers, Sequences, FiniteSets, TLC

(***************************************************************************)
(* Bounds of the model                                                     *)
(***************************************************************************)
\* number of concurrently running route handlers / API callers
NProcs == 2
\* number of sessions the upstream server hands out in one run
MaxSessions == 2
\* number of endpoints callers may name
NUrls == 2
\* number of tags the environment changes, writes or fails
NInputTags == 2
\* number of requests the routes receive in one run
MaxRequests == 2
\* number of change notifications (real or simulated) in one run
MaxPublish == 1
\* number of direct calls of the wrapper's methods in one run
MaxCalls == 3
\* number of failures the environment injects in one run
MaxFaults == 1
\* number of EventSource instances the page creates in one run
MaxES == 6
\* number of upstream changes in a run that follows their order
MaxChanges == 2
\* number of listeners in a run that follows the order of changes
MaxListeners == 1

Procs == 1..NProcs

\* endpoints, the first is the default of connect() and of the stream route
UrlOrder == <<"opc.tcp://localhost:4334", "opc.tcp://plc:4840", "opc.tcp://plc2:4840">>
Urls == {UrlOrder[i] : i \in 1..(IF NUrls < 3 THEN NUrls ELSE 3)}

(***************************************************************************)
(* Tag registry (lib/tags)                                                 *)
(***************************************************************************)
TagName == {"ARU", "AUT", "BPpompe", "BPvanne", "REA", "arret", "marche",
            "niveau", "pompe", "vanne"}

\* Object.keys(tags) / Object.entries(tags) enumeration order
TagOrder == <<"ARU", "AUT", "BPpompe", "BPvanne", "REA", "arret", "marche",
              "niveau", "pompe", "vanne">>

tags == [t \in TagName |->
           [type   |-> IF t = "niveau" THEN "Int16" ELSE "Boolean",
            access |-> IF t \in {"BPpompe", "BPvanne", "niveau"}
                       THEN {"Read"} ELSE {"Read", "Write"}]]

Readable == {t \in TagName : "Read" \in tags[t].access}

\* the tags the environment acts on, a prefix of this order
InputOrder == <<"ARU", "niveau", "BPpompe", "pompe", "vanne">>
InputTags == {InputOrder[i] : i \in 1..(IF NInputTags < 5 THEN NInputTags ELSE 5)}

\* the simulator's candidate list, of which the random index draws a prefix
MockOrder == <<"BPpompe", "BPvanne", "pompe", "vanne">>
MockCandidates == {MockOrder[i] : i \in 1..(IF NInputTags < 4 THEN NInputTags ELSE 4)}

\* JavaScript values as strings: null, booleans, numbers
Null == "null"
\* the value a change notification carries, the value a read returns, the
\* values callers write
ChangedVal(t) == IF tags[t].type = "Int16" THEN "10" ELSE "true"
ReadVal(t) == IF tags[t].type = "Int16" THEN "65" ELSE "false"
WriteVals == {"true", "10"}

\* values Math.floor(Math.random() * 100) may draw, the initial mock value
\* of niveau among them
NiveauDraws == {"10", "65"}

\* the values successive change notifications of a tag carry
ChangeVals(t) == IF tags[t].type = "Int16" THEN NiveauDraws ELSE {"true", "false"}

\* a tag name that is not a key of tags
UnknownTags == {"ghost"}

VARIABLES
  \* OPCUAClientWrapper fields
  connected, currentUrl, session, subscription, monitoredItems, tagValues,
  onUpdateCallbacks,
  \* simulator instances started by mockTagValues (a pair of intervals each)
  mockTimers,
  \* process.env.NODE_ENV
  nodeEnv,
  \* node-opcua client and server: transport endpoint, open sessions,
  \* live subscriptions, number of sessions handed out
  transport, openSessions, activeSubs, nextId,
  \* stream route: activeConnections, per-listener controller and events sent
  activeConnections, listeners, events,
  \* handlers in progress, and the calls that returned in the last step
  procs, returned,
  \* number of notifications published, number of calls started
  nPublished, nCalls, nRequests,
  \* number of failures injected by the environment
  nFaults,
  \* the call that completed last
  lastDone,
  \* the changes in the order they were produced upstream
  upstream,
  \* the tags a read has succeeded for, and those a write was acknowledged for
  provenance,
  \* the page: EventSource instances with their closure variable retryCount,
  \* pending setTimeout(connectEventSource), React state, the zustand store
  es, timers, fetching, isConnecting, isConnected, error, waterStore,
  \* reconnects scheduled since the push channel last opened
  retryStreak,
  \* writeTag seen as a function: the TagInfo of the tag written, the value
  \* the caller passed, the nodeToWrite built from them
  tagInfo, callerValue, nodeToWrite

vars == <<connected, currentUrl, session, subscription, monitoredItems,
          tagValues, onUpdateCallbacks, mockTimers, nodeEnv, transport,
          openSessions, activeSubs, nextId, activeConnections, listeners,
          events, procs, returned, nPublished, nCalls,
          nRequests, nFaults, lastDone, upstream, provenance,
          tagInfo, callerValue, nodeToWrite>>

pageVars == <<es, timers, fetching, isConnecting, isConnected, error, waterStore, retryStreak>>

allVars == <<vars, pageVars>>

\* the program state as one record, for the handlers to transform
Cur == [connected |-> connected, currentUrl |-> currentUrl, session |-> session,
        subscription |-> subscription, monitoredItems |-> monitoredItems,
        tagValues |-> tagValues, onUpdateCallbacks |-> onUpdateCallbacks,
        mockTimers |-> mockTimers, nodeEnv |-> nodeEnv, transport |-> transport,
        openSessions |-> openSessions, activeSubs |-> activeSubs,
        nextId |-> nextId, activeConnections |-> activeConnections,
        listeners |-> listeners, events |-> events,
        procs |-> procs, returned |-> <<>>,
        nPublished |-> nPublished, nCalls |-> nCalls,
        nRequests |-> nRequests,
        nFaults |-> nFaults, lastDone |-> lastDone, upstream |-> upstream,
        provenance |-> provenance]

Set(s) ==
  /\ connected' = s.connected
  /\ currentUrl' = s.currentUrl
  /\ session' = s.session
  /\ subscription' = s.subscription
  /\ monitoredItems' = s.monitoredItems
  /\ tagValues' = s.tagValues
  /\ onUpdateCallbacks' = s.onUpdateCallbacks
  /\ mockTimers' = s.mockTimers
  /\ nodeEnv' = s.nodeEnv
  /\ transport' = s.transport
  /\ openSessions' = s.openSessions
  /\ activeSubs' = s.activeSubs
  /\ nextId' = s.nextId
  /\ activeConnections' = s.activeConnections
  /\ listeners' = s.listeners
  /\ events' = s.events
  /\ procs' = s.procs
  /\ returned' = s.returned
  /\ nPublished' = s.nPublished
  /\ nCalls' = s.nCalls
  /\ nRequests' = s.nRequests
  /\ nFaults' = s.nFaults
  /\ lastDone' = s.lastDone
  /\ upstream' = s.upstream
  /\ provenance' = s.provenance
  /\ UNCHANGED <<tagInfo, callerValue, nodeToWrite>>
  /\ UNCHANGED pageVars

\* a handler that is not running
Idle == [kind |-> "none", pc |-> "idle", url |-> "", tag |-> "", val |-> Null,
         inner |-> FALSE, raced |-> FALSE, sid |-> 0, idx |-> 0,
         reads |-> <<>>, after |-> "", base |-> 0, late |-> FALSE,
         overlap |-> FALSE]

\* return of a wrapper call, recorded for the step it happens in
Ret(op, p, t, v, ok) == [op |-> op, p |-> p, tag |-> t, val |-> v, ok |-> ok]

NoData == [t \in TagName |-> Null]

\* one server-sent event: ": ping", {initial: data} or {tag, value}
Event(type, t, v, data) == [type |-> type, tag |-> t, value |-> v, data |-> data]

Note(s, r) == [s EXCEPT !.returned = Append(@, r)]

\* the handler has run to its end
Finish(s, p) == [s EXCEPT !.procs[p] = Idle, !.lastDone = s.procs[p].kind]

Goto(s, p, pc) == [s EXCEPT !.procs[p].pc = pc]

(***************************************************************************)
(* Distribution: onUpdateCallbacks.forEach and the stream route's callback *)
(***************************************************************************)
\* controller.enqueue throws on a stream that was cancelled
CanEnqueue(s, l) == ~s.listeners[l].cancelled

\* a callback that puts the event ahead of the tag event enqueued last
callbackAhead(s, l, t, v) ==
  LET ev == s.events[l]
      n  == Len(ev)
  IN IF ~CanEnqueue(s, l) THEN s
     ELSE IF ev[n].type = "tag"
     THEN [s EXCEPT !.events[l] =
             SubSeq(ev, 1, n - 1) \o <<Event("tag", t, v, NoData), ev[n]>>]
     ELSE [s EXCEPT !.events[l] = Append(@, Event("tag", t, v, NoData))]

\* the callback registered by the stream route for listener l: enqueue in a
\* try/catch that only logs
callback(s, l, t, v) ==
  IF CanEnqueue(s, l)
  THEN [s EXCEPT !.events[l] = Append(@, Event("tag", t, v, NoData))]
  ELSE s

RECURSIVE forEachCallback(_, _, _, _)
forEachCallback(s, cbs, t, v) ==
  IF cbs = <<>> THEN s
  ELSE forEachCallback(callback(s, Head(cbs), t, v), Tail(cbs), t, v)

\* "Notify all callbacks"
\* forEach without the try/catch of the callback: the first enqueue that
\* throws ends the loop
RECURSIVE forEachUncaught(_, _, _, _)
forEachUncaught(s, cbs, t, v) ==
  IF cbs = <<>> \/ ~CanEnqueue(s, Head(cbs)) THEN s
  ELSE forEachUncaught(callback(s, Head(cbs), t, v), Tail(cbs), t, v)

\* the fan-out is recorded with whether the store holds the value published
\* while the callbacks run
publishUncaught(s, t, v) ==
  Note([forEachUncaught(s, s.onUpdateCallbacks, t, v) EXCEPT
          !.nPublished = @ + 1,
          !.upstream = Append(@, [tag |-> t, value |-> v])],
       Ret("publish", 0, t, v, s.tagValues[t] = v))

publish(s, t, v) ==
  Note([forEachCallback(s, s.onUpdateCallbacks, t, v) EXCEPT
          !.nPublished = @ + 1,
          !.upstream = Append(@, [tag |-> t, value |-> v])],
       Ret("publish", 0, t, v, s.tagValues[t] = v))

\* a handler that notifies the callbacks before it stores the value
changedPublishFirst(s, t, v) == [publish(s, t, v) EXCEPT !.tagValues[t] = v]

\* monitoredItem.on("changed")
changed(s, t, v) == publish([s EXCEPT !.tagValues[t] = v], t, v)

\* JavaScript !value
Not(v) == IF v \in {"false", "null", "0"} THEN "true" ELSE "false"

\* the tick of the first interval, recorded with the value niveau had
Tick(s) == Note(s, Ret("mock.niveau", 0, "niveau", s.tagValues["niveau"], TRUE))

\* a tick that stores newNiveau without "Notify callbacks"
mockNiveauSilent(s, v) == [Tick(s) EXCEPT !.tagValues["niveau"] = v]

\* first interval of mockTagValues: newNiveau = Math.floor(Math.random() * 100)
mockNiveau(s, v) == publish([Tick(s) EXCEPT !.tagValues["niveau"] = v], "niveau", v)

\* the tick of the second interval, recorded with the value randomTag had
Tock(s, t) == Note(s, Ret("mock.toggle", 0, t, s.tagValues[t], TRUE))

\* a second interval that switches randomTag on instead of negating it
mockToggleOn(s, t) ==
  publish([Tock(s, t) EXCEPT !.tagValues[t] = "true"], t, "true")

\* second interval of mockTagValues, randomTag drawn from its candidate list
mockToggle(s, t) ==
  LET newValue == Not(s.tagValues[t])
  IN publish([Tock(s, t) EXCEPT !.tagValues[t] = newValue], t, newValue)

\* start without "Send initial data"
streamStartNoInitial(s, p) ==
  LET l  == Len(s.listeners) + 1
      s1 == [s EXCEPT
               !.listeners = Append(@, [aborted |-> FALSE, cancelled |-> FALSE]),
               !.events = Append(@, <<Event("ping", "", Null, NoData)>>),
               !.activeConnections = @ \cup {l},
               !.onUpdateCallbacks = Append(@, l)]
  IN Finish(Note(s1, Ret("attach", p, "", Null, TRUE)), p)

\* ReadableStream.start of the stream route
streamStart(s, p) ==
  LET l  == Len(s.listeners) + 1
      s1 == [s EXCEPT
               !.listeners = Append(@, [aborted |-> FALSE, cancelled |-> FALSE]),
               !.events = Append(@, <<Event("ping", "", Null, NoData)>>),
               !.activeConnections = @ \cup {l},
               !.onUpdateCallbacks = Append(@, l)]
      s2 == [s1 EXCEPT !.events[l] = Append(@, Event("initial", "", Null, s1.tagValues))]
  IN Finish(Note(s2, Ret("attach", p, "", Null, TRUE)), p)

\* request.signal "abort" listener
abort(s, l) ==
  IF l \in s.activeConnections
  THEN [s EXCEPT !.activeConnections = @ \ {l},
                 !.onUpdateCallbacks = SelectSeq(@, LAMBDA cb : cb # l),
                 !.listeners[l].aborted = TRUE]
  ELSE s

\* ReadableStream.cancel
cancel(s, l) ==
  [s EXCEPT !.activeConnections = @ \ {l}, !.listeners[l].cancelled = TRUE]

(***************************************************************************)
(* readAllTags / readTag                                                   *)
(***************************************************************************)
retReadAll(s, p) ==
  LET s1 == Note(s, Ret("readAllTags", p, "", Null, TRUE))
  IN IF s.procs[p].kind = "stream" THEN streamStart(s1, p) ELSE Finish(s1, p)

readAllTags(s, p) ==
  IF s.session = 0 \/ ~s.connected
  THEN retReadAll(s, p)
  ELSE [s EXCEPT !.procs[p].pc = "r_read", !.procs[p].idx = 1,
                 !.procs[p].reads = <<>>, !.procs[p].sid = s.session]

\* results.forEach(({tagName, value}) => this.tagValues[tagName] = value)
RECURSIVE storeResults(_, _, _)
storeResults(s, reads, i) ==
  IF i > Len(reads) THEN s
  ELSE storeResults([s EXCEPT !.tagValues[TagOrder[i]] = reads[i]], reads, i + 1)

\* completion of one session.read of readAllTags; good is the status, v the value
readDone(s, p, good, v) ==
  LET t  == TagOrder[s.procs[p].idx]
      s1 == IF good THEN [s EXCEPT !.tagValues[t] = v, !.provenance.read = @ \cup {t}]
            ELSE Note(s, Ret("readTag", p, t, Null, FALSE))
      r  == IF good THEN v ELSE Null
      s2 == [s1 EXCEPT !.procs[p].reads = Append(@, r), !.procs[p].idx = @ + 1]
  IN IF s2.procs[p].idx > Len(TagOrder)
     THEN retReadAll(storeResults(s2, s2.procs[p].reads, 1), p)
     ELSE s2

\* the good responses for the tags up to the next input tag
RECURSIVE readOthers(_, _)
readOthers(s, p) ==
  IF s.procs[p].pc # "r_read" \/ TagOrder[s.procs[p].idx] \in InputTags THEN s
  ELSE readOthers(readDone(s, p, TRUE, ReadVal(TagOrder[s.procs[p].idx])), p)

(***************************************************************************)
(* writeTag                                                                *)
(***************************************************************************)
retWriteTag(s, p, ok) ==
  LET pr == s.procs[p]
      s1 == Note(s, Ret("writeTag", p, pr.tag, pr.val, ok))
  IN IF pr.kind = "control"
     THEN Finish(Note(s1, Ret("control", p, pr.tag, pr.val, ok)), p)
     ELSE Finish(s1, p)

\* writeTag without the check of tag.access
writeTagUnchecked(s, p) ==
  IF s.session = 0 \/ ~s.connected
  THEN retWriteTag(s, p, FALSE)
  ELSE [s EXCEPT !.procs[p].pc = "w_ack", !.procs[p].sid = s.session]

\* the console.error of a precondition of writeTag that does not hold
Refused(s, p, why) == Note(s, Ret("writeTag.error", p, s.procs[p].tag, why, FALSE))

\* writeTag with the access check ahead of the session check
writeTagAccessFirst(s, p) ==
  IF "Write" \notin tags[s.procs[p].tag].access
  THEN retWriteTag(Refused(s, p, "Unwritable"), p, FALSE)
  ELSE IF s.session = 0 \/ ~s.connected
  THEN retWriteTag(Refused(s, p, "NotConnected"), p, FALSE)
  ELSE [s EXCEPT !.procs[p].pc = "w_ack", !.procs[p].sid = s.session]

\* "tag.access" on the undefined tags[tagName] throws a TypeError outside
\* the try block of writeTag: the call rejects; the control route's catch
\* answers an error
throwWriteTag(s, p) ==
  LET pr == s.procs[p]
      s1 == Note(s, Ret("writeTag.throw", p, pr.tag, "TypeError", FALSE))
  IN IF pr.kind = "control"
     THEN Finish(Note(s1, Ret("control", p, pr.tag, pr.val, FALSE)), p)
     ELSE Finish(s1, p)

\* writeTag that stores the value when it sends the write
writeTagOptimistic(s, p) ==
  IF s.session = 0 \/ ~s.connected
  THEN retWriteTag(Refused(s, p, "NotConnected"), p, FALSE)
  ELSE IF s.procs[p].tag \notin TagName
  THEN throwWriteTag(s, p)
  ELSE IF "Write" \notin tags[s.procs[p].tag].access
  THEN retWriteTag(Refused(s, p, "Unwritable"), p, FALSE)
  ELSE [s EXCEPT !.procs[p].pc = "w_ack", !.procs[p].sid = s.session,
                 !.tagValues[s.procs[p].tag] = s.procs[p].val]

\* writeTag up to "await this.session.write"
writeTag(s, p) ==
  IF s.session = 0 \/ ~s.connected
  THEN retWriteTag(Refused(s, p, "NotConnected"), p, FALSE)
  ELSE IF s.procs[p].tag \notin TagName
  THEN throwWriteTag(s, p)
  ELSE IF "Write" \notin tags[s.procs[p].tag].access
  THEN retWriteTag(Refused(s, p, "Unwritable"), p, FALSE)
  ELSE [s EXCEPT !.procs[p].pc = "w_ack", !.procs[p].sid = s.session]

\* the status code of session.write, good or not (bad status or exception)
Status(s, p, good) ==
  Note(s, Ret("session.write", p, s.procs[p].tag, s.procs[p].val, good))

\* writeTag that answers a good status without "Update local value"
writeAckNoCommit(s, p, good) == retWriteTag(Status(s, p, good), p, good)

\* writeTag that stores the value whatever the status
writeAckAlwaysCommit(s, p, good) ==
  retWriteTag([Status(s, p, good) EXCEPT
                 !.tagValues[s.procs[p].tag] = s.procs[p].val], p, good)

\* writeTag from the status code (or the exception) of session.write
writeAck(s, p, good) ==
  IF good
  THEN retWriteTag([Status(s, p, good) EXCEPT
                      !.tagValues[s.procs[p].tag] = s.procs[p].val,
                      !.provenance.written = @ \cup {s.procs[p].tag}], p, TRUE)
  ELSE retWriteTag(Status(s, p, good), p, FALSE)

\* the type union of TagInfo.type
ValueTypes == {"Boolean", "Int16", "Float", "String"}

\* the values a caller may pass, whatever the tag: booleans, numbers, text
Representations == {"true", "false", "0", "1", "10", "3.5", "on", "null"}

\* "Determine the data type based on the tag type": the switch of writeTag
dataTypeOf(type) ==
  CASE type = "Boolean" -> "Boolean"
    [] type = "Int16" -> "Int16"
    [] OTHER -> "Variant"

\* no request built yet
NoNode == [dataType |-> "", value |-> Null]

\* const nodeToWrite = {nodeId, attributeId, value: {value: {dataType, value}}}
buildNode(tag, value) == [dataType |-> dataTypeOf(tag.type), value |-> value]

(***************************************************************************)
(* connect / disconnect                                                    *)
(***************************************************************************)
\* the try block of connect up to "await Promise.race"
connectAttempt(s, p) == Goto(s, p, "c_transport")

retDisconnect(s, p) ==
  LET pr == s.procs[p]
      s1 == Note(s, Ret("disconnect", p, "", Null, TRUE))
  IN IF pr.inner
     THEN connectAttempt([s1 EXCEPT !.procs[p].inner = FALSE], p)
     ELSE IF pr.kind = "test"
     THEN Finish(Note(s1, Ret("test", p, "", Null, TRUE)), p)
     ELSE Finish(s1, p)

\* disconnect from "Disconnect client"
discClient(s, p) == Goto(s, p, "d_client")

\* disconnect from "Close session if it exists"
discSession(s, p) ==
  IF s.session # 0
  THEN [s EXCEPT !.procs[p].pc = "d_close", !.procs[p].sid = s.session]
  ELSE discClient(s, p)

\* disconnect up to its first await
disconnect(s, p) ==
  IF ~s.connected THEN retDisconnect(s, p)
  ELSE IF s.subscription # 0
  THEN [s EXCEPT !.procs[p].pc = "d_term", !.procs[p].sid = s.subscription]
  ELSE discSession(s, p)

\* subscription.terminate() resolved / rejected
terminated(s, p, ok) ==
  IF ok
  THEN discSession([s EXCEPT
         !.activeSubs = {sub \in @ : sub.id # s.procs[p].sid},
         !.subscription = 0], p)
  ELSE retDisconnect(s, p)

\* session.close() resolved / rejected
closed(s, p, ok) ==
  IF ok
  THEN discClient([s EXCEPT
         !.openSessions = {ses \in @ : ses.id # s.procs[p].sid},
         !.activeSubs = {sub \in @ : sub.session # s.procs[p].sid},
         !.session = 0], p)
  ELSE retDisconnect(s, p)

\* client.disconnect() resolved / rejected
clientDisconnected(s, p, ok) ==
  IF ok
  THEN retDisconnect([s EXCEPT !.transport = "", !.openSessions = {},
                               !.activeSubs = {}, !.connected = FALSE], p)
  ELSE retDisconnect(s, p)

\* the connection to the server breaks and the client's reconnection attempts
\* (connectionStrategy.maxRetry) are used up: the library drops the channel
\* with its sessions and subscriptions; the wrapper listens to no client event
transportLost(s) ==
  [s EXCEPT !.transport = "", !.openSessions = {}, !.activeSubs = {}]

\* "Set initial mock values"
MockValues == [t \in TagName |->
                 IF t = "niveau" THEN "65"
                 ELSE IF t \in {"BPpompe", "BPvanne", "marche", "pompe", "vanne"}
                 THEN "true" ELSE "false"]

\* mockTagValues: initial mock values and the two intervals
mockTagValues(s) == [s EXCEPT !.tagValues = MockValues, !.mockTimers = @ + 1]

\* the teardown steps of disconnect
Teardown == {"d_term", "d_close", "d_client"}

\* a caller is told that the wrapper is connected: every disconnect that is
\* between two of its awaits at that moment has been overlapped
Reported(s, ok) ==
  IF ~ok THEN s
  ELSE [s EXCEPT !.procs = [q \in Procs |->
          IF s.procs[q].pc \in Teardown /\ ~s.procs[q].inner
          THEN [s.procs[q] EXCEPT !.overlap = TRUE]
          ELSE s.procs[q]]]

\* what the route handler does with the result of connect
retConnect(s, p, ok) ==
  LET pr == s.procs[p]
      s1 == Reported(Note(s, Ret("connect", p, pr.after,
                                 IF s.session > pr.base THEN "new" ELSE "old", ok)),
                     ok)
  IN CASE pr.kind = "stream" ->
            IF ok THEN readAllTags(s1, p) ELSE streamStart(s1, p)
       [] pr.kind = "control" ->
            IF ~ok \/ ~s1.connected
            THEN Finish(Note(s1, Ret("control", p, pr.tag, pr.val, FALSE)), p)
            ELSE writeTag(s1, p)
       [] pr.kind = "test" ->
            IF pr.raced THEN Finish(s1, p)
            ELSE IF ok THEN disconnect(s1, p)
            ELSE Finish(Note(s1, Ret("test", p, "", Null, FALSE)), p)
       [] OTHER -> Finish(s1, p)

\* the catch block of connect
connectFailed(s, p) ==
  LET s1 == Note(s, Ret("connect.catch", p, "", Null, FALSE))
  IN IF s.nodeEnv = "development"
     THEN retConnect(mockTagValues([s1 EXCEPT !.connected = TRUE,
                                              !.currentUrl = s.procs[p].url]), p, TRUE)
     ELSE retConnect(s1, p, FALSE)

\* client.connect(endpointUrl) resolved before the timeout
transportConnected(s, p) ==
  [s EXCEPT !.transport = s.procs[p].url, !.procs[p].pc = "c_session"]

\* the catch block of monitorTag, once for every tag in failing, in the order
\* of the loop
monitorErrors(failing) ==
  LET f == SelectSeq(TagOrder, LAMBDA t : t \in failing)
  IN IF failing = {} THEN <<>>
     ELSE [i \in 1..Len(f) |-> Ret("monitorTag", 0, f[i], "error", FALSE)]

\* a loop over the readable tags that the first failing monitorTag ends
createSubscriptionAbort(s, id, failing) ==
  LET at(t)  == CHOOSE i \in DOMAIN TagOrder : TagOrder[i] = t
      done   == {t \in Readable : \A f \in failing : at(t) < at(f)}
  IN IF s.session = 0 \/ ~s.connected THEN s
     ELSE [s EXCEPT
             !.subscription = id,
             !.activeSubs = @ \cup {[id |-> id, session |-> s.session,
                                     tags |-> done]},
             !.monitoredItems = [t \in TagName |-> IF t \in done THEN id ELSE @[t]],
             !.returned = @ \o monitorErrors(failing)]

\* the 10 s timer of connect fires after client.connect has won the race:
\* its rejection is dropped, the call goes on awaiting createSession
timeoutLate(s, p) == [s EXCEPT !.procs[p].late = TRUE]

\* createSubscription with monitorTag for every readable tag; create throws
\* for the tags in failing
createSubscription(s, id, failing) ==
  IF s.session = 0 \/ ~s.connected THEN s
  ELSE [s EXCEPT
          !.subscription = id,
          !.activeSubs = @ \cup {[id |-> id, session |-> s.session,
                                  tags |-> Readable \ failing]},
          !.monitoredItems = [t \in TagName |->
                                IF t \in Readable \ failing THEN id ELSE @[t]],
          !.returned = @ \o monitorErrors(failing)]

\* connect from the resolution of client.createSession()
sessionCreated(s, p, failing) ==
  LET id == s.nextId + 1
      s1 == [s EXCEPT !.nextId = id,
                      !.openSessions = @ \cup {[id |-> id, url |-> s.transport]},
                      !.session = id,
                      !.connected = TRUE,
                      !.currentUrl = s.procs[p].url]
  IN retConnect(createSubscription(s1, id, failing), p, TRUE)

\* connect without "If already connected to the same URL, return true"
connectAlways(s, p) ==
  IF s.connected
  THEN disconnect([s EXCEPT !.procs[p].inner = TRUE], p)
  ELSE connectAttempt(s, p)

\* connect up to its first await
connect(s, p) ==
  IF s.connected /\ s.currentUrl = s.procs[p].url
  THEN retConnect(s, p, TRUE)
  ELSE IF s.connected /\ s.currentUrl # s.procs[p].url
  THEN disconnect([s EXCEPT !.procs[p].inner = TRUE], p)
  ELSE connectAttempt(s, p)

(***************************************************************************)
(* Route handlers                                                          *)
(***************************************************************************)
\* GET /api/socket?url=
streamGET(s, p, url) ==
  LET s1 == [s EXCEPT !.procs[p] = [Idle EXCEPT !.kind = "stream", !.url = url]]
  IN IF ~s1.connected \/ s1.currentUrl # url
     THEN connect(s1, p)
     ELSE streamStart(Reported(s1, TRUE), p)

\* POST /api/control {tag, value, url}
controlPOST(s, p, t, v, url) ==
  LET s1 == [s EXCEPT !.procs[p] = [Idle EXCEPT !.kind = "control", !.url = url,
                                                !.tag = t, !.val = v]]
  IN IF url # "" /\ (~s1.connected \/ s1.currentUrl # url)
     THEN connect(s1, p)
     ELSE IF ~s1.connected
     THEN Finish(Note(s1, Ret("control", p, t, v, FALSE)), p)
     ELSE writeTag(s1, p)

\* POST /api/test-connection {url}
testPOST(s, p, url) ==
  connect([s EXCEPT !.procs[p] = [Idle EXCEPT !.kind = "test", !.url = url]], p)

\* the route's own timeout wins Promise.race: the catch block answers, the
\* connect call stays in flight
testTimeout(s, p) ==
  Note([s EXCEPT !.procs[p].raced = TRUE],
       Ret("test", p, "", "timeout", s.nodeEnv = "development"))

(***************************************************************************)
(* Initial state: the module-level singletons after construction           *)
(***************************************************************************)
\* the store's initialState
initialState == [connected |-> FALSE, tags |-> [t \in TagName |-> Null]]

InitWrapper ==
  /\ connected = FALSE
  /\ currentUrl = ""
  /\ session = 0
  /\ subscription = 0
  /\ monitoredItems = [t \in TagName |-> 0]
  /\ tagValues = [t \in TagName |-> Null]
  /\ onUpdateCallbacks = <<>>
  /\ mockTimers = 0
  /\ nodeEnv \in {"production", "development"}
  /\ transport = ""
  /\ openSessions = {}
  /\ activeSubs = {}
  /\ nextId = 0
  /\ activeConnections = {}
  /\ listeners = <<>>
  /\ events = <<>>
  /\ procs = [p \in Procs |-> Idle]
  /\ returned = <<>>
  /\ nPublished = 0
  /\ nCalls = 0
  /\ nRequests = 0
  /\ nFaults = 0
  /\ lastDone = ""
  /\ upstream = <<>>
  /\ provenance = [read |-> {}, written |-> {}]
  /\ es = <<>>
  /\ timers = 0
  /\ fetching = FALSE
  /\ isConnecting = FALSE
  /\ isConnected = FALSE
  /\ error = "null"
  /\ waterStore = initialState
  /\ retryStreak = 0

Init ==
  /\ InitWrapper
  /\ tagInfo = tags["ARU"]
  /\ callerValue = Null
  /\ nodeToWrite = NoNode

\* writeTag past its two checks, for any tag the TagInfo interface admits
\* with Write access and any value of the caller
InitTypes ==
  /\ InitWrapper
  /\ tagInfo \in [type : ValueTypes, access : {{"Write"}, {"Read", "Write"}}]
  /\ callerValue \in Representations
  /\ nodeToWrite = NoNode

(***************************************************************************)
(* Actions                                                                 *)
(***************************************************************************)
At(p, pc) == procs[p].pc = pc

\* handlers are interchangeable: a call or request takes the first free one
Free(p) ==
  /\ procs[p].pc = "idle"
  /\ \A q \in Procs : q < p => procs[q].pc # "idle"

\* a direct call of a method of the wrapper
Call(p) == [Cur EXCEPT !.nCalls = @ + 1]

CanCall(p) == Free(p) /\ nCalls < MaxCalls

\* a request arriving at a route
Request(p) == [Cur EXCEPT !.nRequests = @ + 1]

CanRequest(p) == Free(p) /\ nRequests < MaxRequests

SessionIds == {ses.id : ses \in openSessions}

\* direct calls of the wrapper's public methods
ApiConnectOn(urls) ==
  \E p \in Procs, url \in urls :
    /\ CanCall(p)
    /\ Set(connect([Call(p) EXCEPT !.procs[p] =
                       [Idle EXCEPT !.kind = "connect", !.url = url, !.base = nextId,
                                    !.after = IF lastDone = "disconnect" /\ currentUrl = url
                                              THEN "roundtrip" ELSE lastDone]], p))

ApiConnect == ApiConnectOn(Urls)

\* the callers that all name the default endpoint
ApiConnectDefault == ApiConnectOn({UrlOrder[1]})

ApiDisconnect ==
  \E p \in Procs :
    /\ CanCall(p)
    /\ Set(disconnect([Call(p) EXCEPT !.procs[p] =
                          [Idle EXCEPT !.kind = "disconnect", !.after = lastDone]], p))

ApiWriteTag ==
  \E p \in Procs, t \in InputTags, v \in WriteVals :
    /\ CanCall(p)
    /\ Set(writeTag([Call(p) EXCEPT !.procs[p] = [Idle EXCEPT !.kind = "writeTag",
                                                          !.tag = t, !.val = v]], p))

\* writeTag called with a name that is not in the registry
ApiWriteUnknown ==
  \E p \in Procs, t \in UnknownTags, v \in WriteVals :
    /\ CanCall(p)
    /\ Set(writeTag([Call(p) EXCEPT !.procs[p] = [Idle EXCEPT !.kind = "writeTag",
                                                          !.tag = t, !.val = v]], p))

\* requests arriving at the routes
StreamGETOn(urls) ==
  \E p \in Procs, url \in urls :
    /\ CanRequest(p)
    /\ Set(streamGET(Request(p), p, url))

StreamGET == StreamGETOn(Urls)

\* the stream requests of pages that all name the default endpoint
StreamGETDefault == StreamGETOn({UrlOrder[1]})

\* no call or request is in progress
Quiet == \A p \in Procs : procs[p].pc = "idle"

\* pages opening one after the other: a stream request arrives when the
\* request before it has been answered
StreamGETNext == Quiet /\ StreamGETDefault

ControlPOST ==
  \E p \in Procs, t \in InputTags, v \in WriteVals, url \in Urls \cup {""} :
    /\ CanRequest(p)
    /\ Set(controlPOST(Request(p), p, t, v, url))

TestPOST ==
  \E p \in Procs, url \in Urls :
    /\ CanRequest(p)
    /\ Set(testPOST(Request(p), p, url))

TestTimeout ==
  \E p \in Procs :
    /\ procs[p].kind = "test" /\ ~procs[p].raced
    /\ \/ At(p, "c_session")
       \/ procs[p].inner /\ procs[p].pc \in {"d_term", "d_close", "d_client"}
    /\ Set(testTimeout(Cur, p))

\* completions of the promises a handler awaits; a connection attempt may
\* fail at any time, any other rejection is a fault of the environment unless
\* the state of the server forces it
Fault(forced) == IF forced THEN Cur ELSE [Cur EXCEPT !.nFaults = @ + 1]

CanFail(forced) == forced \/ nFaults < MaxFaults

TransportConnected ==
  \E p \in Procs : At(p, "c_transport") /\ Set(transportConnected(Cur, p))

\* client.connect rejects, or the 10 s timeout of connect wins the race
TransportFailed ==
  \E p \in Procs : At(p, "c_transport") /\ Set(connectFailed(Cur, p))

SessionCreated ==
  \E p \in Procs :
    /\ At(p, "c_session")
    /\ transport # ""
    /\ nextId < MaxSessions
    /\ Set(sessionCreated(Cur, p, {}))

\* the session is created and ClientMonitoredItem.create throws for one tag
SessionCreatedPartly ==
  \E p \in Procs, t \in InputTags :
    /\ At(p, "c_session")
    /\ transport # ""
    /\ nextId < MaxSessions
    /\ CanFail(FALSE)
    /\ Set(sessionCreated(Fault(FALSE), p, {t}))

\* 10 s have passed since the attempt began and the session is not created
TimeoutLate ==
  \E p \in Procs :
    /\ At(p, "c_session") /\ ~procs[p].late
    /\ Set(timeoutLate(Cur, p))

SessionFailed ==
  \E p \in Procs : At(p, "c_session") /\ Set(connectFailed(Cur, p))

Terminated ==
  \E p \in Procs, ok \in BOOLEAN :
    /\ At(p, "d_term")
    /\ ~ok => CanFail(FALSE)
    /\ Set(terminated(Fault(ok), p, ok))

Closed ==
  \E p \in Procs, ok \in BOOLEAN :
    /\ At(p, "d_close")
    /\ ~ok => CanFail(FALSE)
    /\ Set(closed(Fault(ok), p, ok))

ClientDisconnected ==
  \E p \in Procs, ok \in BOOLEAN :
    /\ At(p, "d_client")
    /\ ~ok => CanFail(FALSE)
    /\ Set(clientDisconnected(Fault(ok), p, ok))

WriteAck ==
  \E p \in Procs, good \in BOOLEAN :
    /\ At(p, "w_ack")
    /\ good => procs[p].sid \in SessionIds
    /\ ~good => CanFail(procs[p].sid \notin SessionIds)
    /\ Set(writeAck(Fault(good \/ procs[p].sid \notin SessionIds), p, good))

\* the responses of readAllTags arrive in request order; those of the tags
\* the environment does not act on are good and arrive in one batch with the
\* next response of an input tag
ReadDone ==
  \E p \in Procs, good \in BOOLEAN :
    /\ At(p, "r_read")
    /\ good => procs[p].sid \in SessionIds
    /\ ~good => CanFail(procs[p].sid \notin SessionIds)
    /\ LET s1 == readOthers(Fault(good \/ procs[p].sid \notin SessionIds), p)
       IN IF s1.procs[p].pc # "r_read" THEN Set(s1)
          ELSE LET s2 == readDone(s1, p, good, ReadVal(TagOrder[s1.procs[p].idx]))
               IN IF \E i \in s2.procs[p].idx..Len(TagOrder) : TagOrder[i] \in InputTags
                  THEN Set(s2)
                  ELSE Set(readOthers(s2, p))

\* the transport of the session in use is lost for good
TransportLost ==
  /\ connected /\ session \in SessionIds
  /\ CanFail(FALSE)
  /\ Set(transportLost(Fault(FALSE)))

\* upstream change notification of a monitored item
Changed ==
  \E t \in InputTags :
    /\ nPublished < MaxPublish
    /\ \E sub \in activeSubs : t \in sub.tags
    /\ Set(changed(Cur, t, ChangedVal(t)))

\* upstream change notifications with the values of successive changes
ChangedAny ==
  \E t \in InputTags :
    \E v \in ChangeVals(t) :
      /\ nPublished < MaxChanges
      /\ \E sub \in activeSubs : t \in sub.tags
      /\ Set(changed(Cur, t, v))

\* simulator ticks, one pair of intervals per mockTagValues call
MockNiveau ==
  \E v \in NiveauDraws :
    /\ mockTimers > 0
    /\ nPublished < MaxPublish
    /\ Set(mockNiveau(Cur, v))

MockToggle ==
  \E t \in MockCandidates :
    /\ mockTimers > 0
    /\ nPublished < MaxPublish
    /\ Set(mockToggle(Cur, t))

\* downstream transport events of a listener
Abort ==
  \E l \in 1..Len(listeners) : ~listeners[l].aborted /\ Set(abort(Cur, l))

Cancel ==
  \E l \in 1..Len(listeners) :
    ~listeners[l].cancelled /\ ~listeners[l].aborted /\ Set(cancel(Cur, l))

ConnectCompletions ==
  \/ TransportConnected \/ TransportFailed \/ SessionCreated \/ SessionFailed

DisconnectCompletions ==
  \/ Terminated \/ Closed \/ ClientDisconnected

\* writeTag from its switch to the nodeToWrite it hands to session.write
BuildNode ==
  /\ nodeToWrite = NoNode
  /\ nodeToWrite' = buildNode(tagInfo, callerValue)
  /\ UNCHANGED <<connected, currentUrl, session, subscription, monitoredItems,
                 tagValues, onUpdateCallbacks, mockTimers, nodeEnv, transport,
                 openSessions, activeSubs, nextId, activeConnections, listeners,
                 events, procs, returned, nPublished, nCalls, nRequests, nFaults,
                 lastDone, upstream, provenance, tagInfo, callerValue, pageVars>>

\* ---- the page ----

\* const maxRetries = 5
maxRetries == 5

\* the messages the page's EventSource can deliver
Messages ==
  {Event("initial", "", Null, MockValues)}
    \cup {Event("tag", t, ChangedVal(t), NoData) : t \in InputTags}

\* connectEventSource: a new EventSource with its own retryCount = 0
connectEventSource ==
  es' = Append(es, [state |-> "connecting", retryCount |-> 0])

\* handleConnect up to "await fetch"
HandleConnect ==
  /\ ~isConnecting /\ ~isConnected /\ ~fetching
  /\ Len(es) < MaxES
  /\ isConnecting' = TRUE
  /\ error' = "null"
  /\ fetching' = TRUE
  /\ UNCHANGED <<vars, es, timers, isConnected, waterStore, retryStreak>>

\* handleConnect from the answer of /api/test-connection
TestResponse ==
  /\ fetching
  /\ fetching' = FALSE
  /\ \E success \in BOOLEAN :
       IF success
       THEN /\ connectEventSource
            /\ UNCHANGED <<isConnecting, error>>
       ELSE /\ error' = "Failed to connect to OPC-UA server"
            /\ isConnecting' = FALSE
            /\ UNCHANGED es
  /\ UNCHANGED <<vars, timers, isConnected, waterStore, retryStreak>>

\* eventSource.onopen
ESOpen ==
  \E i \in DOMAIN es :
    /\ es[i].state = "connecting"
    /\ es' = [es EXCEPT ![i].state = "open", ![i].retryCount = 0]
    /\ isConnecting' = FALSE
    /\ isConnected' = TRUE
    /\ waterStore' = [waterStore EXCEPT !.connected = TRUE]
    /\ error' = "null"
    /\ retryStreak' = 0
    /\ UNCHANGED <<vars, timers, fetching>>

\* eventSource.onmessage
ESMessage ==
  \E i \in DOMAIN es, m \in Messages :
    /\ es[i].state = "open"
    /\ waterStore' = IF m.type = "initial"
                     THEN [waterStore EXCEPT !.tags = [t \in TagName |-> m.data[t]]]
                     ELSE [waterStore EXCEPT !.tags[m.tag] = m.value]
    /\ UNCHANGED <<vars, es, timers, fetching, isConnecting, isConnected, error, retryStreak>>

\* eventSource.onerror
ESError ==
  \E i \in DOMAIN es :
    /\ es[i].state \in {"connecting", "open"}
    /\ IF es[i].retryCount < maxRetries
       THEN /\ es' = [es EXCEPT ![i].state = "closed", ![i].retryCount = @ + 1]
            /\ error' = "Connection lost. Retrying"
            /\ timers' = timers + 1
            /\ retryStreak' = retryStreak + 1
            /\ UNCHANGED <<isConnecting, isConnected, waterStore>>
       ELSE /\ es' = [es EXCEPT ![i].state = "closed"]
            /\ error' = "Failed to connect after multiple attempts"
            /\ isConnecting' = FALSE
            /\ isConnected' = FALSE
            /\ waterStore' = [waterStore EXCEPT !.connected = FALSE]
            /\ UNCHANGED <<timers, retryStreak>>
    /\ UNCHANGED <<vars, fetching>>

\* setTimeout(connectEventSource, retryDelay) fires
RetryTimer ==
  /\ timers > 0
  /\ Len(es) < MaxES
  /\ timers' = timers - 1
  /\ connectEventSource
  /\ UNCHANGED <<vars, fetching, isConnecting, isConnected, error, waterStore, retryStreak>>

\* the Disconnect button: window.location.reload()
Reload ==
  /\ isConnected
  /\ es' = <<>>
  /\ timers' = 0
  /\ fetching' = FALSE
  /\ isConnecting' = FALSE
  /\ isConnected' = FALSE
  /\ error' = "null"
  /\ waterStore' = initialState
  /\ retryStreak' = 0
  /\ UNCHANGED vars

\* ---- specifications ----

\* the wrapper's methods called directly and concurrently, on the default
\* endpoint
NextApi ==
  \/ ApiConnectDefault \/ ApiDisconnect \/ ApiWriteTag
  \/ ConnectCompletions \/ DisconnectCompletions \/ WriteAck
  \/ Changed \/ MockNiveau \/ MockToggle

SpecApi == Init /\ [][NextApi]_allVars

\* the stream route and its listeners
NextStream ==
  \/ StreamGETNext \/ ConnectCompletions \/ ReadDone
  \/ Changed \/ MockNiveau \/ MockToggle
  \/ Abort \/ Cancel

SpecStream == Init /\ [][NextStream]_allVars

\* the wrapper's methods called one after the other: a call starts when the
\* call before it has returned
SeqConnect == Quiet /\ ApiConnect

SeqDisconnect == Quiet /\ ApiDisconnect

SeqWriteTag == Quiet /\ ApiWriteTag

SeqWriteUnknown == Quiet /\ ApiWriteUnknown

NextSeq ==
  \/ SeqConnect \/ SeqDisconnect \/ SeqWriteTag \/ SeqWriteUnknown
  \/ ConnectCompletions \/ DisconnectCompletions \/ WriteAck
  \/ Changed \/ MockNiveau \/ MockToggle

SpecSeq == Init /\ [][NextSeq]_allVars

\* callers that never disconnect, on a transport that can be lost; every
\* promise a call awaits is settled in the end
NextLoss ==
  \/ ApiConnectDefault \/ ApiWriteTag
  \/ ConnectCompletions \/ WriteAck
  \/ TransportLost \/ Changed

SpecLoss ==
  Init /\ [][NextLoss]_allVars /\ WF_allVars(ConnectCompletions \/ WriteAck)

\* connects and disconnects one after the other, with monitored items that
\* the server may refuse
NextMonitor ==
  \/ SeqConnect \/ SeqDisconnect
  \/ ConnectCompletions \/ SessionCreatedPartly \/ DisconnectCompletions
  \/ Changed

SpecMonitor == Init /\ [][NextMonitor]_allVars

\* connects and disconnects one after the other, with the timer of connect
NextTimeout ==
  \/ SeqConnect \/ SeqDisconnect
  \/ ConnectCompletions \/ TimeoutLate \/ DisconnectCompletions

SpecTimeout == Init /\ [][NextTimeout]_allVars

\* the encoding of a write for every declared type and caller value
NextTypes == BuildNode

SpecTypes == InitTypes /\ [][NextTypes]_allVars

\* a read that is awaited is answered: weak fairness of ReadDone, which is
\* enabled exactly while a handler awaits a read
ReadsAnswered ==
  \/ []<>(\A p \in Procs : ~At(p, "r_read"))
  \/ []<><<ReadDone>>_allVars

\* the stream route while no tag changes
NextKeepAlive ==
  \/ StreamGETNext \/ ConnectCompletions \/ ReadDone
  \/ Abort \/ Cancel

\* every promise the handler awaits is settled in the end; a listener may stay
\* for ever
SpecKeepAlive ==
  Init /\ [][NextKeepAlive]_allVars /\ WF_allVars(ConnectCompletions) /\ ReadsAnswered

\* the three routes sharing the singleton
NextRoutes ==
  \/ StreamGET \/ ControlPOST \/ TestPOST \/ TestTimeout
  \/ ConnectCompletions \/ DisconnectCompletions \/ WriteAck \/ ReadDone

SpecRoutes == Init /\ [][NextRoutes]_allVars

StreamGETOrder == nRequests < MaxListeners /\ StreamGETNext

\* listeners of a session whose tags change several times; their streams
\* close by the abort of the request
NextOrder ==
  \/ StreamGETOrder \/ ConnectCompletions \/ ReadDone \/ ChangedAny
  \/ Abort

SpecOrder == Init /\ [][NextOrder]_allVars

\* connection tests only
NextTest ==
  \/ TestPOST \/ TestTimeout \/ ConnectCompletions \/ DisconnectCompletions

SpecTest == Init /\ [][NextTest]_allVars

\* the page and its EventSource
NextClient ==
  \/ HandleConnect \/ TestResponse \/ ESOpen \/ ESMessage \/ ESError
  \/ RetryTimer \/ Reload

SpecClient == Init /\ [][NextClient]_allVars

(***************************************************************************)
(* Properties                                                              *)
(***************************************************************************)
Returned(op) == {returned[i] : i \in {j \in DOMAIN returned : returned[j].op = op}}

\* C1: writeTag(T, v) answers success only if Write is in the access of T;
\* for a tag without Write (niveau, BPpompe, BPvanne) it answers failure and
\* leaves the stored value of T as it was, whatever the session state.
C1_WriteNeedsAccess ==
  [][\A i \in DOMAIN returned' :
       returned'[i].op = "writeTag" =>
         LET r == returned'[i]
         IN /\ r.ok => "Write" \in tags[r.tag].access
            /\ "Write" \notin tags[r.tag].access =>
                 ~r.ok /\ tagValues'[r.tag] = tagValues[r.tag]]_allVars

\* a write of niveau has been refused on a connected session
C1_Witness ==
  /\ connected /\ session # 0
  /\ \E r \in Returned("writeTag") : r.tag = "niveau" /\ ~r.ok

\* C2: every listener of the stream route is sent exactly one initial event,
\* and it comes before every tag event sent to that listener.
C2_OneInitialFirst ==
  \A l \in DOMAIN events :
    \E i \in DOMAIN events[l] :
      /\ events[l][i].type = "initial"
      /\ \A j \in DOMAIN events[l] :
           /\ events[l][j].type = "initial" => j = i
           /\ events[l][j].type = "tag" => j > i

\* a listener has been sent a tag event after its initial event
C2_Witness ==
  \E l \in DOMAIN events :
    \E i, j \in DOMAIN events[l] :
      i < j /\ events[l][i].type = "initial" /\ events[l][j].type = "tag"

\* the listeners whose callback is registered and whose stream takes events
Attached == {l \in DOMAIN listeners :
               (\E i \in DOMAIN onUpdateCallbacks : onUpdateCallbacks[i] = l)
               /\ ~listeners[l].cancelled}

\* C3: when an update is published, every attached listener whose stream is
\* open is sent it, whatever other listeners have detached or fail to take it.
C3_ListenerIsolation ==
  [][\A i \in DOMAIN returned' :
       returned'[i].op = "publish" =>
         \A m \in Attached :
           events'[m] = Append(events[m],
                               Event("tag", returned'[i].tag, returned'[i].val, NoData))]_allVars

\* an update has reached an open listener registered after a listener whose
\* stream refuses events
C3_Witness ==
  /\ Returned("publish") # {}
  /\ \E i, j \in DOMAIN onUpdateCallbacks :
       /\ i < j
       /\ listeners[onUpdateCallbacks[i]].cancelled
       /\ onUpdateCallbacks[j] \in Attached
       /\ LET ev == events[onUpdateCallbacks[j]]
          IN \E r \in Returned("publish") :
               ev[Len(ev)] = Event("tag", r.tag, r.val, NoData)

\* C4: at any moment the process holds at most one upstream session and one
\* subscription, for every interleaving of connect calls from the routes.
C4_SingleSession ==
  /\ Cardinality(openSessions) <= 1
  /\ Cardinality(activeSubs) <= 1
  /\ \A a, b \in openSessions : a.url = b.url

\* C5: in production a connect whose attempt fails answers failure, starts no
\* simulator and leaves the wrapper disconnected.
C5_FailedConnectDisconnected ==
  nodeEnv = "production" =>
    /\ mockTimers = 0
    /\ \A r \in Returned("connect.catch") :
         /\ ~connected
         /\ \E c \in Returned("connect") : c.p = r.p /\ ~c.ok

\* C6: while the simulator stands in for a session, the wrapper does not
\* report itself connected as it does with a real session.
C6_DegradedNotConnected ==
  (mockTimers > 0 /\ session = 0) => ~connected

\* C7: the page schedules at most maxRetries reconnects between two openings
\* of the push channel.
C7_BoundedRetries == retryStreak <= maxRetries

\* C8: disconnect() called twice in a row leaves the wrapper disconnected
\* after each call, and the second call takes no teardown step.
C8_DisconnectIdempotent ==
  /\ \A r \in Returned("disconnect") : ~connected
  /\ ~\E p \in Procs : procs[p].kind = "disconnect" /\ procs[p].after = "disconnect"

\* C9: after connect(E) and disconnect(), a connect(E) that answers success
\* has opened a new session.
C9_RoundTrip ==
  nodeEnv = "production" =>
    \A r \in Returned("connect") : (r.tag = "roundtrip" /\ r.ok) => r.val = "new"

\* C10: when session.write answers a good status, writeTag(T, v) answers
\* success and the stored value of T is v when it returns.
C10_GoodWriteCommits ==
  \A r \in Returned("session.write") :
    r.ok => /\ \E w \in Returned("writeTag") : w.p = r.p /\ w.tag = r.tag /\ w.ok
            /\ tagValues[r.tag] = r.val

\* a write of ARU has been acknowledged and answered
C10_Witness ==
  \E r \in Returned("session.write") :
    r.ok /\ r.tag = "ARU" /\ r.val = "true" /\ tagValues["ARU"] = "true"

\* C11: when session.write answers a bad status or raises, writeTag answers
\* failure and no entry of the store is changed.
C11_FailedWriteLeavesStore ==
  [][\A i \in DOMAIN returned' :
       (returned'[i].op = "session.write" /\ ~returned'[i].ok) =>
         /\ \E j \in DOMAIN returned' :
              /\ returned'[j].op = "writeTag" /\ returned'[j].p = returned'[i].p
              /\ ~returned'[j].ok
         /\ tagValues' = tagValues]_allVars

\* a write of ARU has failed at the controller on a connected session
C11_Witness ==
  /\ connected /\ session # 0
  /\ \E r \in Returned("session.write") : ~r.ok /\ r.tag = "ARU"
  /\ \E w \in Returned("writeTag") : ~w.ok /\ w.tag = "ARU"

\* C12: a writeTag called while there is no connected session (disconnected,
\* or the simulator standing in) is refused as not connected for every tag,
\* sends nothing and leaves the store; only with a connected session is a
\* tag refused as unwritable.
C12_PreconditionOrder ==
  [][/\ (session = 0 \/ ~connected) =>
          /\ \A p \in Procs : procs'[p].pc = "w_ack" => procs[p].pc = "w_ack"
          /\ \A i \in DOMAIN returned' :
               returned'[i].op = "writeTag.error" =>
                 /\ returned'[i].val = "NotConnected"
                 /\ tagValues' = tagValues
                 /\ \E j \in DOMAIN returned' :
                      /\ returned'[j].op = "writeTag" /\ ~returned'[j].ok
                      /\ returned'[j].p = returned'[i].p
     /\ (session # 0 /\ connected) =>
          \A i \in DOMAIN returned' :
            returned'[i].op = "writeTag.error" =>
              /\ returned'[i].val = "Unwritable"
              /\ "Write" \notin tags[returned'[i].tag].access]_allVars

\* a write of the unwritable niveau has been refused as not connected while
\* the simulator stands in for the session
C12_Witness ==
  /\ mockTimers > 0 /\ session = 0 /\ connected
  /\ \E r \in Returned("writeTag.error") : r.tag = "niveau" /\ r.val = "NotConnected"

\* C13: a writeTag on a name that is not in the registry ends with an error
\* result, in every session state, and leaves the store.
C13_UnknownTagRefused ==
  \A i \in DOMAIN returned :
    returned[i].tag \in UnknownTags =>
      \E j \in DOMAIN returned :
        /\ returned[j].op = "writeTag" /\ returned[j].p = returned[i].p
        /\ ~returned[j].ok

\* the last event sent to listener l is the tag event of niveau's stored value
NiveauDelivered(l) ==
  events[l][Len(events[l])] = Event("tag", "niveau", tagValues["niveau"], NoData)

\* C14 as stated: at a tick of the simulator in degraded mode, niveau differs
\* from its previous value and every attached listener has been sent it.
C14_NiveauDiffers ==
  (session = 0 /\ connected) =>
    \A r \in Returned("mock.niveau") :
      /\ tagValues["niveau"] # r.val
      /\ \A l \in Attached : NiveauDelivered(l)

\* C14 amended: at a tick of the simulator in degraded mode, niveau holds a
\* newly drawn value, which may equal the previous one, and every attached
\* listener has been sent a tag event with it.
C14_NiveauTick ==
  (session = 0 /\ connected) =>
    \A r \in Returned("mock.niveau") :
      /\ tagValues["niveau"] \in NiveauDraws
      /\ \A l \in Attached : NiveauDelivered(l)

\* a tick in degraded mode has drawn the value niveau already had and an
\* attached listener has been sent it
C14_Witness ==
  /\ session = 0 /\ connected /\ mockTimers > 0
  /\ \E r \in Returned("mock.niveau") : tagValues["niveau"] = r.val
  /\ \E l \in Attached : NiveauDelivered(l)

\* C15: connect(E) while connected to E answers success within the call,
\* opens no transport, session or subscription and leaves session,
\* subscription, monitored items, store and listener list as they were.
C15_SameEndpointNoOp ==
  [][/\ \A p \in Procs :
          (procs[p].pc = "idle" /\ procs'[p].kind = "connect" /\ connected)
            => procs'[p].url # currentUrl
     /\ \A i \in DOMAIN returned' :
          (returned'[i].op = "connect" /\ procs[returned'[i].p].pc = "idle") =>
            /\ connected /\ returned'[i].ok
            /\ UNCHANGED <<connected, currentUrl, session, subscription,
                           monitoredItems, tagValues, onUpdateCallbacks,
                           transport, openSessions, activeSubs, nextId,
                           mockTimers>>]_allVars

\* a connect to the endpoint of the open session has answered success and
\* the session is the one that was there
C15_Witness ==
  /\ connected /\ session # 0 /\ session \in SessionIds
  /\ \E r \in Returned("connect") : r.ok /\ r.val = "old"

\* C16: a connect to another endpoint opens its connection only after the
\* session and subscription of the endpoint before have been torn down, and
\* no session to the new endpoint exists beside a session to the old one.
C16_SwitchTearsDownFirst ==
  /\ \A p \in Procs :
       procs[p].pc \in {"c_transport", "c_session"} =>
         openSessions = {} /\ activeSubs = {}
  /\ \A a, b \in openSessions : a.url = b.url

\* C17: when every connection test has been answered and has run to its end,
\* no session, subscription or simulator started by a test is left.
C17_TestLeavesNothing ==
  Quiet => /\ openSessions = {} /\ activeSubs = {}
           /\ session = 0 /\ subscription = 0
           /\ mockTimers = 0

\* the values of the events of sequence ev that are about tag t
ValuesOf(ev, t) ==
  LET sel == SelectSeq(ev, LAMBDA e : e.tag = t)
  IN [i \in DOMAIN sel |-> sel[i].value]

\* sequence a is sequence b with some elements left out
RECURSIVE IsSubSeq(_, _)
IsSubSeq(a, b) ==
  IF a = <<>> THEN TRUE
  ELSE IF b = <<>> THEN FALSE
  ELSE IF Head(a) = Head(b) THEN IsSubSeq(Tail(a), Tail(b))
  ELSE IsSubSeq(a, Tail(b))

\* C18: for every listener and tag, the values sent to the listener for the
\* tag are in the order in which the changes of the tag were produced.
C18_PerTagOrder ==
  \A l \in DOMAIN events, t \in InputTags :
    IsSubSeq(ValuesOf(SelectSeq(events[l], LAMBDA e : e.type = "tag"), t),
             ValuesOf(upstream, t))

\* a listener has been sent two successive, different values of one tag
C18_Witness ==
  \E l \in DOMAIN events, t \in InputTags :
    LET vs == ValuesOf(SelectSeq(events[l], LAMBDA e : e.type = "tag"), t)
    IN Len(vs) >= 2 /\ vs[1] # vs[2]

\* C19: a listener whose stream has signalled abort or cancel is neither in
\* the list of delivery callbacks nor in the set of active connections.
C19_ClosedListenerRemoved ==
  \A l \in DOMAIN listeners :
    (listeners[l].aborted \/ listeners[l].cancelled) =>
      /\ l \notin activeConnections
      /\ \A i \in DOMAIN onUpdateCallbacks : onUpdateCallbacks[i] # l

\* the tags a change notification, real or simulated, has been produced for
Notified == {upstream[i].tag : i \in DOMAIN upstream}

\* C20 as stated: a stored value is non-null only for a readable tag and only
\* after a successful read of the tag or a change notification for it.
C20_StoreInvariant ==
  \A t \in TagName :
    tagValues[t] # Null =>
      /\ "Read" \in tags[t].access
      /\ t \in provenance.read \cup Notified

\* C20 amended: a stored value is non-null only for a readable tag and only
\* after a successful read of the tag, a change notification for it, an
\* acknowledged write to it, or the start of the simulator.
C20_StoreSources ==
  \A t \in TagName :
    tagValues[t] # Null =>
      /\ "Read" \in tags[t].access
      /\ \/ t \in provenance.read \cup Notified
         \/ t \in provenance.written
         \/ mockTimers > 0

\* the store holds the value of an acknowledged write to a tag that was
\* never read or notified
C20_Witness ==
  /\ tagValues["ARU"] = "true"
  /\ "ARU" \in provenance.written
  /\ "ARU" \notin provenance.read \cup Notified
  /\ mockTimers = 0

\* C21: every step of disconnect's teardown is attempted whatever the step
\* before it did: after subscription.terminate() the session close or the
\* client disconnect follows, after session.close() the client disconnect
\* follows, and every disconnect() that returns leaves connected = false.
C21_TeardownBestEffort ==
  [][/\ \A p \in Procs :
          /\ procs[p].pc = "d_term" /\ procs'[p] # procs[p] =>
               procs'[p].pc \in {"d_close", "d_client"}
          /\ procs[p].pc = "d_close" /\ procs'[p] # procs[p] =>
               procs'[p].pc = "d_client"
     /\ \A i \in DOMAIN returned' :
          returned'[i].op = "disconnect" => ~connected']_allVars

\* the session the wrapper holds has lost its transport
Lost == connected /\ session # 0 /\ transport = ""

\* C22: once the transport of a connected session is lost for good, the
\* wrapper comes to report itself disconnected (or holds a live session
\* again), and a connect that answers success with a session holds a session
\* that is open, not the lost one.
C22_LostBecomesDisconnected ==
  /\ [](Lost => <>(~connected \/ session \in SessionIds))
  /\ [][\A i \in DOMAIN returned' :
          (returned'[i].op = "connect" /\ returned'[i].ok /\ session' # 0)
            => session' \in SessionIds']_allVars

\* C23: the monitored-item map is empty whenever the wrapper is disconnected,
\* and between calls it holds no item of a subscription that is terminated.
C23_ItemsOnlyWithSubscription ==
  /\ ~connected => \A t \in TagName : monitoredItems[t] = 0
  /\ Quiet =>
       \A t \in TagName :
         monitoredItems[t] # 0 => \E sub \in activeSubs : sub.id = monitoredItems[t]

C25_CommitThenFanOut ==
  [][\A i \in DOMAIN returned' :
       returned'[i].op = "publish" =>
         LET r == returned'[i]
         IN /\ r.ok
            /\ tagValues'[r.tag] = r.val
            /\ \A u \in TagName \ {r.tag} : tagValues'[u] = tagValues[u]
            /\ \A l \in Attached :
                 events'[l][Len(events'[l])] = Event("tag", r.tag, r.val, NoData)]_allVars

\* a listener has been sent a change whose value differs from the value the
\* store held before, and the store holds the new value
C25_Witness ==
  \E r \in Returned("publish") :
    /\ Len(upstream) > 1
    /\ upstream[Len(upstream) - 1].tag = r.tag
    /\ upstream[Len(upstream) - 1].value # r.val
    /\ tagValues[r.tag] = r.val
    /\ \E l \in Attached :
         events[l][Len(events[l])] = Event("tag", r.tag, r.val, NoData)

\* the simulator stands in for a session
Degraded == connected /\ session = 0

\* C26: the simulator ticks only while the wrapper is in Degraded mode, not
\* after disconnect() and not beside a real session, and at most one
\* simulator instance runs however often Degraded mode is entered.
C26_SimulatorOnlyDegraded ==
  /\ [](mockTimers <= 1)
  /\ [][\A i \in DOMAIN returned' :
          returned'[i].op \in {"mock.niveau", "mock.toggle"} => Degraded]_allVars

\* a step of the simulator: its start or one of its ticks
SimulatorStep ==
  \/ mockTimers' # mockTimers
  \/ \E i \in DOMAIN returned' : returned'[i].op \in {"mock.niveau", "mock.toggle"}

\* the step has published the value the store holds for t
Published(t) ==
  \E i \in DOMAIN returned' :
    /\ returned'[i].op = "publish"
    /\ returned'[i].tag = t /\ returned'[i].val = tagValues'[t]

\* C27 as stated: the simulator changes no other tag than niveau and the four
\* candidates, it never changes ARU, AUT, REA, arret or marche, and every
\* change it makes is stored and published.
C27_SimulatorFrame ==
  [][SimulatorStep =>
       /\ \A t \in {"ARU", "AUT", "REA", "arret", "marche"} :
            tagValues'[t] = tagValues[t]
       /\ \A t \in TagName : tagValues'[t] # tagValues[t] => Published(t)]_allVars

\* C27: every tick of the first interval replaces niveau alone by a drawn
\* value and publishes it, every tick of the second interval negates one of
\* BPpompe, BPvanne, pompe, vanne alone and publishes it; the start of the
\* simulator sets all ten tags to the fixed mock values and publishes nothing.
C27_SimulatorTicks ==
  [][/\ \A i \in DOMAIN returned' :
          returned'[i].op = "mock.niveau" =>
            /\ tagValues'["niveau"] \in NiveauDraws
            /\ tagValues' = [tagValues EXCEPT !["niveau"] = tagValues'["niveau"]]
            /\ Published("niveau")
     /\ \A i \in DOMAIN returned' :
          returned'[i].op = "mock.toggle" =>
            LET t == returned'[i].tag
            IN /\ t \in {"BPpompe", "BPvanne", "pompe", "vanne"}
               /\ tagValues' = [tagValues EXCEPT ![t] = Not(tagValues[t])]
               /\ Published(t)
     /\ mockTimers' # mockTimers =>
          /\ tagValues' = MockValues
          /\ \A i \in DOMAIN returned' : returned'[i].op # "publish"]_allVars

\* the second interval has negated a candidate tag and an attached listener
\* has been sent the new value
C27_Witness ==
  \E r \in Returned("mock.toggle") :
    /\ tagValues[r.tag] = Not(r.val)
    /\ \E l \in Attached :
         events[l][Len(events[l])] = Event("tag", r.tag, tagValues[r.tag], NoData)

\* C28: no connect call is still in progress once its 10 s timeout has
\* elapsed: a call whose connection was not complete by then has answered
\* failure, and in production it leaves the wrapper disconnected.
C28_ConnectBounded ==
  /\ [](\A p \in Procs : ~procs[p].late)
  /\ [][\A p \in Procs :
          (procs[p].late /\ procs'[p].pc = "idle") =>
            /\ \E i \in DOMAIN returned' :
                 /\ returned'[i].op = "connect"
                 /\ returned'[i].p = p /\ ~returned'[i].ok
            /\ nodeEnv = "production" => ~connected']_allVars

Open(l) ==
  l \in DOMAIN listeners /\ ~listeners[l].aborted /\ ~listeners[l].cancelled

\* the keep-alive events sent to listener l
Pings(l) ==
  IF l \in DOMAIN events
  THEN Cardinality({i \in DOMAIN events[l] : events[l][i].type = "ping"})
  ELSE 0

\* C30: a listener whose stream stays open is sent keep-alive events again
\* and again: after the one sent at the start of the stream another one
\* follows, unless the stream is closed.
C30_KeepAliveRepeats ==
  \A l \in 1..MaxRequests :
    [](Open(l) => <>(~Open(l) \/ Pings(l) > 1))

\* C31: in production, whenever no call is in progress, a wrapper that
\* reports itself connected holds a session.
C31_ConnectedHasSession ==
  (nodeEnv = "production" /\ Quiet) => (connected => session # 0)

\* C32: a session that a caller was told is connected, by a connect that
\* answered success or by the check of the stream route, is not torn down by
\* a disconnect() that was invoked before the caller was told.
C32_SuccessOutlivesTeardown ==
  [][\A p \in Procs :
       (procs[p].pc \in Teardown /\ procs[p].overlap /\ procs'[p] # procs[p]) =>
         /\ connected => connected'
         /\ session' = session]_allVars

\* readAllTags of handler p returns in this step
ReadAllReturns(p) ==
  /\ procs[p].pc = "r_read"
  /\ \E i \in DOMAIN returned' :
       returned'[i].op = "readAllTags" /\ returned'[i].p = p

\* C33: when readAllTags() completes, a tag whose read had returned a value
\* and whose stored value was replaced since by a newer one keeps the newer
\* value.
C33_NoRegression ==
  [][\A p \in Procs :
       ReadAllReturns(p) =>
         \A k \in DOMAIN procs[p].reads :
           (procs[p].reads[k] # Null /\ tagValues[TagOrder[k]] # procs[p].reads[k])
             => tagValues'[TagOrder[k]] = tagValues[TagOrder[k]]]_allVars

\* the read of tag t by handler p has failed, before this step or in it
ReadFailed(p, t) ==
  \/ \E k \in DOMAIN procs[p].reads : TagOrder[k] = t /\ procs[p].reads[k] = Null
  \/ \E i \in DOMAIN returned' :
       /\ returned'[i].op = "readTag" /\ returned'[i].p = p
       /\ returned'[i].tag = t /\ ~returned'[i].ok

\* C34: when readAllTags() completes, a tag whose read failed keeps the value
\* the store held for it; it is not replaced by null.
C34_FailedReadKeepsValue ==
  [][\A p \in Procs :
       ReadAllReturns(p) =>
         \A t \in Readable :
           ReadFailed(p, t) => tagValues'[t] = tagValues[t]]_allVars

\* C35: the stream route attaches a listener and sends it the snapshot only
\* when the wrapper is connected (or Degraded) to the endpoint asked for: a
\* request whose connect answered failure attaches no listener.
C35_StreamNeedsSession ==
  [][\A i \in DOMAIN returned' :
       returned'[i].op = "attach" =>
         LET p == returned'[i].p
         IN /\ connected'
            /\ procs[p].pc # "idle" => currentUrl' = procs[p].url
            /\ ~\E j \in DOMAIN returned' :
                 /\ returned'[j].op = "connect"
                 /\ returned'[j].p = p /\ ~returned'[j].ok]_allVars

\* eventSource.onmessage on the page's store: updateAllTags for the initial
\* snapshot, setTagValue for a tag event; a ": ping" line is no message
onmessage(store, e) ==
  IF e.type = "initial" THEN [t \in TagName |-> e.data[t]]
  ELSE IF e.type = "tag" THEN [store EXCEPT ![e.tag] = e.value]
  ELSE store

\* the store of a consumer that has processed the events ev in order
RECURSIVE Consumed(_, _)
Consumed(store, ev) ==
  IF ev = <<>> THEN store
  ELSE Consumed(onmessage(store, Head(ev)), Tail(ev))

\* the tags of the store of the consumer behind listener l
Mirror(l) == Consumed(initialState.tags, events[l])

\* C36: when no handler is in progress, the store of every consumer whose
\* stream is open and that has processed all the events sent to it holds for
\* every tag the value the server-side store holds.
C36_ConsumerMirrorsStore ==
  Quiet =>
    \A l \in DOMAIN listeners :
      (Open(l) /\ l \in Attached) => Mirror(l) = tagValues

====
